---- MODULE Spec2Model ----
(***************************************************************************)
(* Model of the tsic driver (src/src/lib.rs): one sensor session (Tsic),   *)
(* its read operation stepped one hardware access at a time, the packet    *)
(* codec (Packet) and the temperature model (Temperature).                 *)
(*                                                                         *)
(* The hardware is the environment: every signal-pin read answers High,    *)
(* Low or fails, every supply-pin write succeeds or fails, delays never    *)
(* fail.  The levels seen at the nine sample points of a packet are drawn  *)
(* from Frames: the encodings of a few bytes, with the parity bit as sent  *)
(* or flipped by noise.                                                    *)
(***************************************************************************)
EXTENDS Integers, Sequences, FiniteSets, TLC

VARIABLES
    vdd_pin,        \* Tsic.vdd_pin: "Some" or "None" (fixed at construction)
    vdd_level,      \* last level the supply pin accepted: "none", "high", "low"
    pc,             \* position of the thread inside read
    pkt,            \* which read_packet call of read is running: 1 or 2
    bit_i,          \* iterations of `for _ in 0..9` completed
    strobe_acc,     \* strobe_len(): the accumulator `strobe_len` (microseconds)
    strobe_len,     \* read_packet(): the local `strobe_len: u8`
    packet_bits,    \* read_packet(): the local `packet_bits: u16`
    first_packet,   \* read(): `first_packet` (NoPacket until bound)
    second_packet,  \* read(): `second_packet`
    err,            \* the Err(err) a match arm of read is holding
    result,         \* what the last call returned: NoResult, Ok(..) or Err(..)
    log             \* observer of the current call: what the hardware saw

vars == <<vdd_pin, vdd_level, pc, pkt, bit_i, strobe_acc, strobe_len,
          packet_bits, first_packet, second_packet, err, result, log>>

(***************************************************************************)
(* Bounds of the model.                                                    *)
(***************************************************************************)
\* low observations one strobe measurement may make before the line rises
MaxStrobe == 33
\* distinct data bytes the sensor transmits
NumBytes == 4

(***************************************************************************)
(* Program constants.                                                      *)
(***************************************************************************)
STROBE_SAMPLING_RATE == 8
VDD_POWER_UP_DELAY == 50
PacketLen == 9
U8 == 256
U16 == 65536

(***************************************************************************)
(* Integer helpers: the bit-level operations of u16.                       *)
(***************************************************************************)
RECURSIVE count_ones(_)
count_ones(x) == IF x = 0 THEN 0 ELSE (x % 2) + count_ones(x \div 2)

RECURSIVE BitOr(_, _)
BitOr(a, b) ==
    IF a = 0 THEN b
    ELSE IF b = 0 THEN a
    ELSE (IF a % 2 = 1 \/ b % 2 = 1 THEN 1 ELSE 0) + 2 * BitOr(a \div 2, b \div 2)

RECURSIVE BitXor(_, _)
BitXor(a, b) ==
    IF a = 0 THEN b
    ELSE IF b = 0 THEN a
    ELSE ((a + b) % 2) + 2 * BitXor(a \div 2, b \div 2)

RECURSIVE Pow2(_)
Pow2(n) == IF n = 0 THEN 1 ELSE 2 * Pow2(n - 1)

Shl16(x, n) == (x * Pow2(n)) % U16
Shr(x, n) == x \div Pow2(n)

(***************************************************************************)
(* Result values.                                                          *)
(***************************************************************************)
Ok(v) == [tag |-> "Ok", val |-> v]
Err(e) == [tag |-> "Err", err |-> e]
NoResult == [tag |-> "None"]
NoPacket == [tag |-> "NoPacket"]
NoErr == "none"
TsicError == {"ParityCheckFailed", "PinReadError", "PinWriteError"}

IsOk(r) == r.tag = "Ok"
IsErr(r, e) == r.tag = "Err" /\ r.err = e

(***************************************************************************)
(* Packet codec and temperature model.                                     *)
(***************************************************************************)
\* a parity check that leaves the parity bit out
has_even_parity_data_only(raw) == count_ones(raw \div 2) % 2 = 0
has_even_parity(raw) == count_ones(raw) % 2 = 0

Packet(raw_bits) == [tag |-> "Packet", raw_bits |-> raw_bits]

\* a constructor that accepts whatever was sampled
Packet_new_unchecked(raw_bits) == Ok(Packet(raw_bits))
Packet_new(raw_bits) ==
    IF has_even_parity(raw_bits)
    THEN Ok(Packet(raw_bits))
    ELSE Err("ParityCheckFailed")

Packet_value(p) == Shr(p.raw_bits, 1)

Temperature(raw) == [tag |-> "Temperature", raw |-> raw]

\* the high byte shifted in 8-bit arithmetic, where it overflows to 0
Temperature_new_u8_shift(first, second) ==
    Temperature(BitOr((Packet_value(first) * Pow2(8)) % U8, Packet_value(second)))
Temperature_new(first, second) ==
    Temperature(BitOr(Shl16(Packet_value(first), 8), Packet_value(second)))

(***************************************************************************)
(* Temperature::as_celsius, lines 292-294, in f32 arithmetic: every        *)
(* operation gives the exact result rounded to 24 significant binary       *)
(* digits, ties to the even neighbour.  An f32 is held as its sign and     *)
(* mant / 2^scale with mant odd or scale 0, so that equal values are equal *)
(* records.                                                                *)
(***************************************************************************)
F32Digits == 24
F32Top == Pow2(F32Digits)

RECURSIVE F32(_, _, _)
F32(neg, mant, scale) ==
    IF mant = 0 THEN [neg |-> FALSE, mant |-> 0, scale |-> 0]
    ELSE IF mant % 2 = 0 /\ scale > 0 THEN F32(neg, mant \div 2, scale - 1)
    ELSE [neg |-> neg, mant |-> mant, scale |-> scale]

\* the digit above the 24th carried into
RoundUp(m, k) == IF m + 1 = F32Top THEN <<F32Top \div 2, k - 1>> ELSE <<m + 1, k>>

\* long division n / d carried on until the quotient m has 24 digits;
\* r is the remainder, k the number of digits after the binary point
RECURSIVE DivDigits(_, _, _, _)
DivDigits(m, r, k, d) ==
    IF m >= F32Top \div 2 THEN <<m, r, k>>
    ELSE IF 2 * r >= d THEN DivDigits(2 * m + 1, 2 * r - d, k + 1, d)
    ELSE DivDigits(2 * m, 2 * r, k + 1, d)

\* `/` of two whole f32 values below 2^24
DivF32(n, d) ==
    IF n = 0 THEN F32(FALSE, 0, 0)
    ELSE LET t == DivDigits(n \div d, n % d, 0, d)
             up == 2 * t[2] > d \/ (2 * t[2] = d /\ t[1] % 2 = 1)
             mk == IF up THEN RoundUp(t[1], t[3]) ELSE <<t[1], t[3]>>
         IN F32(FALSE, mk[1], mk[2])

\* how many low digits of M do not fit in 24
RECURSIVE Excess(_)
Excess(M) == IF M < F32Top THEN 0 ELSE 1 + Excess(M \div 2)

\* M / 2^K, plus a little more when sticky, rounded to an f32
RoundF32(neg, M, K, sticky) ==
    LET s == Excess(M)
        m == M \div Pow2(s)
        low == M % Pow2(s)
        half == Pow2(s) \div 2
        up == s > 0 /\ (low > half \/ (low = half /\ (sticky \/ m % 2 = 1)))
        mk == IF up THEN RoundUp(m, K - s) ELSE <<m, K - s>>
    IN F32(neg, mk[1], mk[2])

\* `-` of a non-negative f32 a and a small whole number c.  The digits of a
\* beyond the 25th after the point only exist when a is below 1/4; they are
\* folded into the sticky flag, as the aligning shift of the subtraction does
SubF32(a, c) ==
    LET K == IF a.scale < F32Digits + 1 THEN a.scale ELSE F32Digits + 1
        cut == Pow2(a.scale - K)
        mt == a.mant \div cut
        sticky == a.mant % cut # 0
        T == mt - c * Pow2(K)
        M == IF T >= 0 THEN T ELSE IF sticky THEN (-T) - 1 ELSE -T
    IN RoundF32(T < 0, M, K, sticky)

\* `raw as f32 * 200.0`: exact, a u16 times 200 is below 2^24
MulF32(a, b) == a * b

\* the conversion with the full scale taken as 2048 steps
as_celsius_2048(t) == SubF32(DivF32(MulF32(t.raw, 200), 2048), 50)

\* (self.raw as f32 * 200.0 / 2047.0) - 50.0
as_celsius(t) == SubF32(DivF32(MulF32(t.raw, 200), 2047), 50)

(***************************************************************************)
(* The sensor, as the driver sees it at its sample points.  A frame is the *)
(* data byte followed by the bit that makes the number of ones even.       *)
(***************************************************************************)
Encode(b) == 2 * b + (count_ones(b) % 2)
TxBytes == {(25 + 26 * i) % U8 : i \in 0..(NumBytes - 1)}
\* what the nine samples of a packet can show: a frame, or a frame whose
\* parity bit noise has flipped
Frames == {BitXor(Encode(b), flip) : b \in TxBytes, flip \in 0..1}
\* the levels of a frame in the order they appear on the line, first bit first
FrameBits(f) == [k \in 1..PacketLen |-> Shr(f, PacketLen - k) % 2]
\* what the samples taken so far in one packet can be
FramePrefixes == {SubSeq(FrameBits(f), 1, k) : k \in 0..PacketLen, f \in Frames}
LevelBit(r) == IF r = "High" THEN 1 ELSE 0

Level == {"High", "Low"}
PinRead == Level \cup {"Fail"}

(***************************************************************************)
(* The observer.  It is reset when read is called and never read by the    *)
(* driver; history is the only field that outlives a call.                 *)
(***************************************************************************)
Min(a, b) == IF a < b THEN a ELSE b
Sat == 2

LogInit(h) ==
    [ history |-> h,           \* "fresh", "failed_only" or "other"
      nSetHigh |-> 0,          \* vdd set_high calls
      nSetLow |-> 0,           \* vdd set_low calls
      nPowerDown |-> 0,        \* maybe_power_down_sensor calls
      nVddDelay |-> 0,         \* stabilization delays
      nStrobe |-> 0,           \* strobe_len calls
      nSamples |-> 0,          \* bit samples taken
      didSigRead |-> FALSE,    \* the signal pin was read
      didDelay |-> FALSE,      \* delay_us was called
      lastDelay |-> -1,        \* argument of the last delay_us call
      setHighFailed |-> FALSE,
      setLowFailed |-> FALSE,
      sigFailed |-> FALSE,
      sawHigh |-> FALSE,       \* some signal-pin read answered High
      sawLow |-> FALSE,        \* some signal-pin read answered Low
      strobeLows |-> 0,        \* Low answers to the latest strobe_len call
      strobeHighs |-> 0,       \* High answers to it
      strobeDelays |-> 0,      \* delay_us calls it made
      strobeRet |-> -1,        \* the microseconds it returned
      firstOps |-> <<>>,       \* the operations up to the first signal-pin read
      stage |-> "none",        \* where the latest read_packet call stands
      bitsDone |-> 0,          \* iterations of its bit loop that ended
      firstErr |-> NoErr,      \* the first failure of this call
      failPkt |-> 0,           \* the read_packet call that failed first
      opsAfterErr |-> <<0, 0, 0>>,  \* signal reads, delays, power-downs after it
      readsAfterSetLow |-> 0,
      samples |-> << <<>>, <<>> >> ]  \* levels sampled, per packet

Bump(n) == Min(n + 1, Sat)

\* one more operation on a pin or on the delay provider
LogOp(l, op) ==
    [l EXCEPT !.firstOps = IF l.didSigRead THEN @ ELSE Append(@, op)]

LogFail(l, e, p) ==
    IF l.firstErr = NoErr
    THEN [l EXCEPT !.firstErr = e, !.failPkt = p]
    ELSE l

LogSigRead(l) ==
    [LogOp(l, "sig_read") EXCEPT !.didSigRead = TRUE,
              !.opsAfterErr[1] = IF l.firstErr # NoErr THEN Bump(@) ELSE @,
              !.readsAfterSetLow = IF l.nSetLow > 0 THEN Bump(@) ELSE @]

\* the level a successful signal-pin read answered
LogLevel(l, r) ==
    [l EXCEPT !.sawHigh = @ \/ (r = "High"), !.sawLow = @ \/ (r = "Low")]

\* The order of the steps of read_packet as the observer expects it; a step
\* taken out of turn leaves the stage "bad" for the rest of the call.
StageStep(l, ev) ==
    CASE ev = "strobe_enter" /\ (l.stage = "none" \/ (l.stage = "bit_next" /\ l.bitsDone = PacketLen))
            -> [l EXCEPT !.stage = "strobing", !.bitsDone = 0]
      [] ev = "strobe_end" /\ l.stage = "strobing" -> [l EXCEPT !.stage = "bit_next"]
      [] ev = "bit_low" /\ l.stage = "bit_next" /\ l.bitsDone < PacketLen
            -> [l EXCEPT !.stage = "bit_low"]
      [] ev = "bit_delay" /\ l.stage = "bit_low" -> [l EXCEPT !.stage = "bit_delayed"]
      [] ev = "sample" /\ l.stage = "bit_delayed" -> [l EXCEPT !.stage = "bit_sampled"]
      [] ev = "bit_high" /\ l.stage = "bit_sampled"
            -> [l EXCEPT !.stage = "bit_next", !.bitsDone = @ + 1]
      [] OTHER -> [l EXCEPT !.stage = "bad"]

\* strobe_len is called
LogStrobeEnter(l) ==
    [StageStep(l, "strobe_enter") EXCEPT
        !.nStrobe = @ + 1, !.strobeLows = 0, !.strobeHighs = 0,
        !.strobeDelays = 0, !.strobeRet = -1]

\* one test of the loop of strobe_len
LogStrobeRead(l, r) ==
    [LogLevel(LogSigRead(l), r) EXCEPT
        !.strobeLows = IF r = "Low" THEN @ + 1 ELSE @,
        !.strobeHighs = IF r = "High" THEN @ + 1 ELSE @]

LogSigFail(l) == LogFail([LogSigRead(l) EXCEPT !.sigFailed = TRUE], "PinReadError", pkt)

LogDelay(l, us) ==
    [LogOp(l, IF us = VDD_POWER_UP_DELAY THEN "delay_50" ELSE "delay") EXCEPT
              !.didDelay = TRUE,
              !.lastDelay = us,
              !.opsAfterErr[2] = IF l.firstErr # NoErr THEN Bump(@) ELSE @]

LogPowerDown(l) ==
    [l EXCEPT !.nPowerDown = Bump(@),
              !.opsAfterErr[3] = IF l.firstErr # NoErr THEN Bump(@) ELSE @]

LogSetLow(l, ok) ==
    [LogOp(l, "set_low") EXCEPT !.nSetLow = Bump(@), !.setLowFailed = @ \/ ~ok]

LogSetHigh(l) == [LogOp(l, "set_high") EXCEPT !.nSetHigh = @ + 1]

NextHistory ==
    IF result.tag = "None" THEN log.history
    ELSE IF (IsErr(result, "ParityCheckFailed") \/ IsErr(result, "PinReadError"))
            /\ log.history # "other"
         THEN "failed_only"
         ELSE "other"

(***************************************************************************)
(* Initial state: a session built by with_vdd_control or by                *)
(* without_vdd_control, no read made yet.                                  *)
(***************************************************************************)
Constructed(vdd) ==
    /\ vdd_pin = vdd
    /\ vdd_level = "none"
    /\ pkt = 0
    /\ bit_i = 0
    /\ strobe_acc = 0
    /\ strobe_len = 0
    /\ packet_bits = 0
    /\ first_packet = NoPacket
    /\ second_packet = NoPacket
    /\ err = NoErr
    /\ result = NoResult
    /\ log = LogInit("fresh")

with_vdd_control == Constructed("Some")
without_vdd_control == Constructed("None")

Init ==
    /\ pc = "idle"
    /\ (with_vdd_control \/ without_vdd_control)

locals == <<pkt, bit_i, strobe_acc, strobe_len, packet_bits, first_packet,
            second_packet, err>>

\* read returns r: its frame, with every local of read and read_packet, is gone
Return(r) ==
    /\ pc' = "idle"
    /\ result' = r
    /\ pkt' = 0
    /\ bit_i' = 0
    /\ strobe_acc' = 0
    /\ strobe_len' = 0
    /\ packet_bits' = 0
    /\ first_packet' = NoPacket
    /\ second_packet' = NoPacket
    /\ err' = NoErr

\* read_packet returns: its own locals are gone
PacketFrameDropped ==
    /\ bit_i' = 0
    /\ strobe_acc' = 0
    /\ strobe_len' = 0
    /\ packet_bits' = 0

\* the error of the first read_packet call swallowed: read goes on to the second
PacketErr_swallowed(e) ==
    IF pkt = 1
    THEN /\ pc' = "wait_start"
         /\ pkt' = 2
         /\ first_packet' = Packet(0)
         /\ PacketFrameDropped
         /\ UNCHANGED <<vdd_pin, vdd_level, second_packet, err, result>>
    ELSE /\ pc' = "err_power_down"
         /\ err' = e
         /\ PacketFrameDropped
         /\ UNCHANGED <<vdd_pin, vdd_level, pkt, first_packet, second_packet, result>>

\* a failed read_packet call that is made again instead of reported
PacketErr_retry(e) ==
    /\ pc' = "wait_start"
    /\ PacketFrameDropped
    /\ UNCHANGED <<vdd_pin, vdd_level, pkt, first_packet, second_packet, err, result>>

\* read_packet returns Err(e) to the match arm of read that called it
PacketErr(e) ==
    /\ pc' = "err_power_down"
    /\ err' = e
    /\ PacketFrameDropped
    /\ UNCHANGED <<vdd_pin, vdd_level, pkt, first_packet, second_packet, result>>

\* a failed signal-pin read that is tried again instead of reported
SigFail_retry ==
    /\ log' = LogSigFail(log)
    /\ UNCHANGED <<vdd_pin, vdd_level, pc, locals, result>>

\* a signal-pin read failed: is_high / is_low map it to PinReadError, `?` returns
SigFail ==
    /\ log' = LogSigFail(log)
    /\ PacketErr("PinReadError")

(***************************************************************************)
(* read, lines 127-149.                                                    *)
(***************************************************************************)
\* a session that remembers its last error and reports it again
Read_sticky_error ==
    /\ pc = "idle"
    /\ IF result.tag = "Err"
       THEN /\ pc' = "idle"
            /\ result' = result
       ELSE /\ pc' = "power_up"
            /\ result' = NoResult
    /\ log' = LogInit(NextHistory)
    /\ UNCHANGED <<vdd_pin, vdd_level, locals>>

\* the caller invokes read on an idle session
Read ==
    /\ pc = "idle"
    /\ pc' = "power_up"
    /\ result' = NoResult
    /\ log' = LogInit(NextHistory)
    /\ UNCHANGED <<vdd_pin, vdd_level, locals>>

\* the stabilization delay issued outside the `if let Some`
PowerUpNone_delays ==
    /\ pc = "power_up"
    /\ vdd_pin = "None"
    /\ pc' = "vdd_delay"
    /\ UNCHANGED <<vdd_pin, vdd_level, locals, result, log>>

\* maybe_power_up_sensor with vdd_pin = None: nothing to do, Ok(())
PowerUpNone ==
    /\ pc = "power_up"
    /\ vdd_pin = "None"
    /\ pc' = "wait_start"
    /\ pkt' = 1
    /\ UNCHANGED <<vdd_pin, vdd_level, bit_i, strobe_acc, strobe_len, packet_bits,
                   first_packet, second_packet, err, result, log>>

\* the outcome of set_high dropped with .ok() instead of propagated with `?`
PowerUpSetHigh_ignored ==
    /\ pc = "power_up"
    /\ vdd_pin = "Some"
    /\ \E ok \in BOOLEAN :
        /\ vdd_level' = IF ok THEN "high" ELSE vdd_level
        /\ pc' = "vdd_delay"
        /\ log' = IF ok
                  THEN LogSetHigh(log)
                  ELSE LogFail([LogSetHigh(log) EXCEPT !.setHighFailed = TRUE],
                               "PinWriteError", 0)
        /\ UNCHANGED <<vdd_pin, locals, result>>

\* maybe_power_up_sensor with vdd_pin = Some(pin): pin.set_high()
PowerUpSetHigh ==
    /\ pc = "power_up"
    /\ vdd_pin = "Some"
    /\ \E ok \in BOOLEAN :
        IF ok
        THEN /\ vdd_level' = "high"
             /\ pc' = "vdd_delay"
             /\ log' = LogSetHigh(log)
             /\ UNCHANGED <<vdd_pin, locals, result>>
        ELSE \* map_err(PinWriteError)?, and the `?` of read line 128
             /\ log' = LogFail([LogSetHigh(log) EXCEPT !.setHighFailed = TRUE],
                               "PinWriteError", 0)
             /\ Return(Err("PinWriteError"))
             /\ UNCHANGED <<vdd_pin, vdd_level>>

\* a power-up that goes on to read_packet #1 without the stabilization delay
PowerUpDelay_skipped ==
    /\ pc = "vdd_delay"
    /\ log' = log
    /\ pc' = "wait_start"
    /\ pkt' = 1
    /\ UNCHANGED <<vdd_pin, vdd_level, bit_i, strobe_acc, strobe_len, packet_bits,
                   first_packet, second_packet, err, result>>

\* delay.delay_us(VDD_POWER_UP_DELAY.as_micros() as u8), then read_packet #1
PowerUpDelay ==
    /\ pc = "vdd_delay"
    /\ log' = [LogDelay(log, VDD_POWER_UP_DELAY % U8) EXCEPT !.nVddDelay = @ + 1]
    /\ pc' = "wait_start"
    /\ pkt' = 1
    /\ UNCHANGED <<vdd_pin, vdd_level, bit_i, strobe_acc, strobe_len, packet_bits,
                   first_packet, second_packet, err, result>>

(***************************************************************************)
(* read_packet, lines 193-214, with strobe_len (223-233) and the edge      *)
(* waits (250-259).  One step per signal-pin read or delay.                *)
(***************************************************************************)
\* a wait for the start bit that gives up on a line that is high
WaitStart_gives_up ==
    /\ pc = "wait_start"
    /\ \E r \in PinRead :
        CASE r = "High" ->
                /\ log' = LogLevel(LogSigRead(log), "High")
                /\ PacketErr("PinReadError")
          [] r = "Low" ->
                /\ log' = LogStrobeEnter(LogLevel(LogSigRead(log), "Low"))
                /\ pc' = "strobe"
                /\ strobe_acc' = 0
                /\ UNCHANGED <<vdd_pin, vdd_level, pkt, bit_i, strobe_len, packet_bits,
                               first_packet, second_packet, err, result>>
          [] r = "Fail" -> SigFail

\* line 194: wait_until_low, one turn of `while self.is_high()? {}`;
\* on Low, strobe_len is entered: `let mut strobe_len = 0`
WaitStart ==
    /\ pc = "wait_start"
    /\ \E r \in PinRead :
        CASE r = "High" ->
                /\ log' = LogLevel(LogSigRead(log), "High")
                /\ UNCHANGED <<vdd_pin, vdd_level, pc, locals, result>>
          [] r = "Low" ->
                /\ log' = LogStrobeEnter(LogLevel(LogSigRead(log), "Low"))
                /\ pc' = "strobe"
                /\ strobe_acc' = 0
                /\ UNCHANGED <<vdd_pin, vdd_level, pkt, bit_i, strobe_len, packet_bits,
                               first_packet, second_packet, err, result>>
          [] r = "Fail" -> SigFail

\* what read_packet keeps of the measured Duration: `.as_micros() as u8`
StrobeAsU8(acc) == acc % U8

\* a measurement that also counts the observation that ends it
StrobeCheck_counts_high ==
    /\ pc = "strobe"
    /\ \E r \in PinRead :
        CASE r = "Low" ->
                /\ strobe_acc < MaxStrobe * STROBE_SAMPLING_RATE
                /\ log' = LogStrobeRead(log, "Low")
                /\ strobe_acc' = strobe_acc + STROBE_SAMPLING_RATE
                /\ pc' = "strobe_delay"
                /\ UNCHANGED <<vdd_pin, vdd_level, pkt, bit_i, strobe_len, packet_bits,
                               first_packet, second_packet, err, result>>
          [] r = "High" ->
                /\ log' = [StageStep(LogStrobeRead(log, "High"), "strobe_end") EXCEPT
                              !.strobeRet = strobe_acc + STROBE_SAMPLING_RATE]
                /\ strobe_acc' = strobe_acc + STROBE_SAMPLING_RATE
                /\ strobe_len' = StrobeAsU8(strobe_acc + STROBE_SAMPLING_RATE)
                /\ packet_bits' = 0
                /\ bit_i' = 0
                /\ pc' = "bit_wait_low"
                /\ UNCHANGED <<vdd_pin, vdd_level, pkt,
                               first_packet, second_packet, err, result>>
          [] r = "Fail" -> SigFail

\* line 227: one test of `while self.is_low()?`; on High the loop ends,
\* lines 196-198: strobe_len is cast to u8 and packet_bits starts at 0
StrobeCheck ==
    /\ pc = "strobe"
    /\ \E r \in PinRead :
        CASE r = "Low" ->
                /\ strobe_acc < MaxStrobe * STROBE_SAMPLING_RATE
                /\ log' = LogStrobeRead(log, "Low")
                /\ strobe_acc' = strobe_acc + STROBE_SAMPLING_RATE
                /\ pc' = "strobe_delay"
                /\ UNCHANGED <<vdd_pin, vdd_level, pkt, bit_i, strobe_len, packet_bits,
                               first_packet, second_packet, err, result>>
          [] r = "High" ->
                /\ log' = [StageStep(LogStrobeRead(log, "High"), "strobe_end") EXCEPT
                              !.strobeRet = strobe_acc]
                /\ strobe_len' = StrobeAsU8(strobe_acc)
                /\ packet_bits' = 0
                /\ bit_i' = 0
                /\ pc' = "bit_wait_low"
                /\ UNCHANGED <<vdd_pin, vdd_level, pkt, strobe_acc,
                               first_packet, second_packet, err, result>>
          [] r = "Fail" -> SigFail

\* line 229: delay.delay_us(sampling_rate as u8)
StrobeDelay ==
    /\ pc = "strobe_delay"
    /\ log' = [LogDelay(log, STROBE_SAMPLING_RATE % U8) EXCEPT !.strobeDelays = @ + 1]
    /\ pc' = "strobe"
    /\ UNCHANGED <<vdd_pin, vdd_level, locals, result>>

\* a bit loop that samples as soon as the line is low, without the delay
BitWaitLow_no_delay ==
    /\ pc = "bit_wait_low"
    /\ \E r \in PinRead :
        CASE r = "High" ->
                /\ log' = LogLevel(LogSigRead(log), "High")
                /\ UNCHANGED <<vdd_pin, vdd_level, pc, locals, result>>
          [] r = "Low" ->
                /\ log' = StageStep(LogLevel(LogSigRead(log), "Low"), "bit_low")
                /\ pc' = "bit_sample"
                /\ UNCHANGED <<vdd_pin, vdd_level, locals, result>>
          [] r = "Fail" -> SigFail

\* line 201: wait_until_low, one turn of `while self.is_high()? {}`
BitWaitLow ==
    /\ pc = "bit_wait_low"
    /\ \E r \in PinRead :
        CASE r = "High" ->
                /\ log' = LogLevel(LogSigRead(log), "High")
                /\ UNCHANGED <<vdd_pin, vdd_level, pc, locals, result>>
          [] r = "Low" ->
                /\ log' = StageStep(LogLevel(LogSigRead(log), "Low"), "bit_low")
                /\ pc' = "bit_delay"
                /\ UNCHANGED <<vdd_pin, vdd_level, locals, result>>
          [] r = "Fail" -> SigFail

\* line 203: delay.delay_us(strobe_len)
BitDelay ==
    /\ pc = "bit_delay"
    /\ log' = StageStep(LogDelay(log, strobe_len), "bit_delay")
    /\ pc' = "bit_sample"
    /\ UNCHANGED <<vdd_pin, vdd_level, locals, result>>

\* the sampled bit or-ed in before the shift instead of after it
Accumulate_or_then_shift(bits, r) ==
    IF r = "High" THEN Shl16(BitOr(bits, 1), 1) ELSE Shl16(bits, 1)

\* the sampled bit or-ed in without the shift that makes room for it
Accumulate_no_shift(bits, r) ==
    IF r = "High" THEN BitOr(bits, 1) ELSE bits

\* lines 205-208: packet_bits <<= 1; if self.is_high()? { packet_bits |= 1 }
Accumulate(bits, r) ==
    IF r = "High" THEN BitOr(Shl16(bits, 1), 1) ELSE Shl16(bits, 1)

LogSample(l, r) ==
    [StageStep(LogLevel(LogSigRead(l), r), "sample") EXCEPT
        !.nSamples = @ + 1,
        !.samples[pkt] = Append(@, LevelBit(r))]

BitSample ==
    /\ pc = "bit_sample"
    /\ \E r \in PinRead :
        IF r = "Fail"
        THEN SigFail
        ELSE /\ Append(log.samples[pkt], LevelBit(r)) \in FramePrefixes
             /\ packet_bits' = Accumulate(packet_bits, r)
             /\ log' = LogSample(log, r)
             /\ pc' = "bit_wait_high"
             /\ UNCHANGED <<vdd_pin, vdd_level, pkt, bit_i, strobe_acc, strobe_len,
                            first_packet, second_packet, err, result>>

\* line 210: wait_until_high, one turn of `while self.is_low()? {}`;
\* on High the iteration of `for _ in 0..9` ends
BitWaitHigh ==
    /\ pc = "bit_wait_high"
    /\ \E r \in PinRead :
        CASE r = "Low" ->
                /\ log' = LogLevel(LogSigRead(log), "Low")
                /\ UNCHANGED <<vdd_pin, vdd_level, pc, locals, result>>
          [] r = "High" ->
                /\ log' = StageStep(LogLevel(LogSigRead(log), "High"), "bit_high")
                /\ bit_i' = bit_i + 1
                /\ pc' = IF bit_i + 1 < PacketLen THEN "bit_wait_low" ELSE "packet_new"
                /\ UNCHANGED <<vdd_pin, vdd_level, pkt, strobe_acc, strobe_len,
                               packet_bits, first_packet, second_packet, err, result>>
          [] r = "Fail" -> SigFail

\* line 213: Packet::new(packet_bits), and the match of read that receives it
\* (lines 130-136 for the first call, 138-144 for the second)
PacketDone ==
    /\ pc = "packet_new"
    /\ LET p == Packet_new(packet_bits) IN
        IF IsOk(p)
        THEN /\ PacketFrameDropped
             /\ log' = log
             /\ IF pkt = 1
                THEN /\ first_packet' = p.val
                     /\ pkt' = 2
                     /\ pc' = "wait_start"
                     /\ UNCHANGED <<vdd_pin, vdd_level, second_packet, err, result>>
                ELSE /\ second_packet' = p.val
                     /\ pc' = "power_down"
                     /\ UNCHANGED <<vdd_pin, vdd_level, pkt, first_packet, err, result>>
        ELSE /\ log' = LogFail(log, p.err, pkt)
             /\ PacketErr(p.err)

(***************************************************************************)
(* maybe_power_down_sensor, lines 167-172, at its three call sites.        *)
(***************************************************************************)
\* the power-down of the error path propagated with `?` instead of .ok()
BestEffort_propagated(e, ok) == IF ok THEN Err(e) ELSE Err("PinWriteError")

\* `maybe_power_down_sensor().ok(); return Err(err)`: what read returns when
\* the power-down came back ok or not
BestEffort(e, ok) == Err(e)

\* the error arms returning at once, without the power-down
ErrPowerDown_skipped ==
    /\ pc = "err_power_down"
    /\ log' = log
    /\ Return(Err(err))
    /\ UNCHANGED <<vdd_pin, vdd_level>>

\* lines 133-134 and 141-142: maybe_power_down_sensor().ok(); return Err(err)
ErrPowerDown ==
    /\ pc = "err_power_down"
    /\ IF vdd_pin = "Some"
       THEN \E ok \in BOOLEAN :
              /\ vdd_level' = IF ok THEN "low" ELSE vdd_level
              /\ log' = LogSetLow(LogPowerDown(log), ok)
              /\ Return(BestEffort(err, ok))
       ELSE /\ vdd_level' = vdd_level
            /\ log' = LogPowerDown(log)
            /\ Return(BestEffort(err, TRUE))
    /\ UNCHANGED vdd_pin

\* a successful read that returns without the power-down
FinalPowerDown_skipped ==
    /\ pc = "power_down"
    /\ log' = log
    /\ Return(Ok(Temperature_new(first_packet, second_packet)))
    /\ UNCHANGED <<vdd_pin, vdd_level>>

\* lines 146-148: maybe_power_down_sensor()?; Ok(Temperature::new(..))
FinalPowerDown ==
    /\ pc = "power_down"
    /\ IF vdd_pin = "Some"
       THEN \E ok \in BOOLEAN :
              /\ vdd_level' = IF ok THEN "low" ELSE vdd_level
              /\ log' = LET l == LogSetLow(LogPowerDown(log), ok) IN
                        IF ok THEN l ELSE LogFail(l, "PinWriteError", 0)
              /\ Return(IF ok
                        THEN Ok(Temperature_new(first_packet, second_packet))
                        ELSE Err("PinWriteError"))
       ELSE /\ vdd_level' = vdd_level
            /\ log' = LogPowerDown(log)
            /\ Return(Ok(Temperature_new(first_packet, second_packet)))
    /\ UNCHANGED vdd_pin

Next ==
    \/ Read
    \/ PowerUpNone
    \/ PowerUpSetHigh
    \/ PowerUpDelay
    \/ WaitStart
    \/ StrobeCheck
    \/ StrobeDelay
    \/ BitWaitLow
    \/ BitDelay
    \/ BitSample
    \/ BitWaitHigh
    \/ PacketDone
    \/ ErrPowerDown
    \/ FinalPowerDown

Spec == Init /\ [][Next]_vars

(***************************************************************************)
(* The same session when read, once called, keeps running, and the line    *)
(* does not stay at one level for ever.  A turn of an edge wait that sees  *)
(* the level it is not waiting for leaves the state as it is, so weak      *)
(* fairness of the steps of read says that the wait is eventually answered *)
(* by the other level or by a failure; the low period a strobe measurement *)
(* sees ends after at most MaxStrobe observations.  Calling read is left   *)
(* to the caller and is not forced.                                        *)
(***************************************************************************)
ReadSteps ==
    \/ PowerUpNone
    \/ PowerUpSetHigh
    \/ PowerUpDelay
    \/ WaitStart
    \/ StrobeCheck
    \/ StrobeDelay
    \/ BitWaitLow
    \/ BitDelay
    \/ BitSample
    \/ BitWaitHigh
    \/ PacketDone
    \/ ErrPowerDown
    \/ FinalPowerDown

SpecLive == Init /\ [][Next]_vars /\ WF_vars(ReadSteps)

(***************************************************************************)
(* The packet codec on its own: Packet::new applied to every 9-bit value,  *)
(* and again to a validated value with one of its nine bits flipped.       *)
(***************************************************************************)
Untouched(vdd) ==
    /\ vdd_pin = vdd
    /\ vdd_level = "none"
    /\ pkt = 0
    /\ bit_i = 0
    /\ strobe_acc = 0
    /\ strobe_len = 0
    /\ err = NoErr
    /\ result = NoResult
    /\ log = LogInit("fresh")

InitPacket ==
    /\ pc = "packet_in"
    /\ packet_bits \in 0..(Pow2(PacketLen) - 1)
    /\ first_packet = NoPacket
    /\ second_packet = NoPacket
    /\ Untouched("None")

PacketNewStep ==
    /\ pc = "packet_in"
    /\ result' = Packet_new(packet_bits)
    /\ pc' = "packet_out"
    /\ UNCHANGED <<vdd_pin, vdd_level, locals, log>>

PacketFlipStep ==
    /\ pc = "packet_out"
    /\ IsOk(result)
    /\ \E j \in 0..(PacketLen - 1) :
        /\ packet_bits' = BitXor(packet_bits, Pow2(j))
        /\ first_packet' = result.val
        /\ result' = Packet_new(BitXor(packet_bits, Pow2(j)))
        /\ pc' = "flipped_out"
        /\ UNCHANGED <<vdd_pin, vdd_level, pkt, bit_i, strobe_acc, strobe_len,
                       second_packet, err, log>>

NextPacket == PacketNewStep \/ PacketFlipStep

SpecPacket == InitPacket /\ [][NextPacket]_vars

(***************************************************************************)
(* The temperature model on its own: Temperature::new applied to every     *)
(* pair of packets Packet::new accepts.                                    *)
(***************************************************************************)
ValidPackets ==
    {Packet_new(v).val : v \in {w \in 0..(Pow2(PacketLen) - 1) : IsOk(Packet_new(w))}}

InitTemperature ==
    /\ pc = "temp_in"
    /\ packet_bits = 0
    /\ first_packet \in ValidPackets
    /\ second_packet \in ValidPackets
    /\ Untouched("None")

TemperatureNewStep ==
    /\ pc = "temp_in"
    /\ result' = Ok(Temperature_new(first_packet, second_packet))
    /\ pc' = "temp_out"
    /\ UNCHANGED <<vdd_pin, vdd_level, locals, log>>

NextTemperature == TemperatureNewStep

SpecTemperature == InitTemperature /\ [][NextTemperature]_vars

(***************************************************************************)
(* The conversion on its own: as_celsius applied to every Temperature.     *)
(***************************************************************************)
InitCelsius ==
    /\ pc = "celsius_in"
    /\ packet_bits = 0
    /\ first_packet = NoPacket
    /\ second_packet = NoPacket
    /\ vdd_pin = "None"
    /\ vdd_level = "none"
    /\ pkt = 0
    /\ bit_i = 0
    /\ strobe_acc = 0
    /\ strobe_len = 0
    /\ err = NoErr
    /\ log = LogInit("fresh")
    /\ result \in {Ok(Temperature(raw)) : raw \in 0..(U16 - 1)}

AsCelsiusStep ==
    /\ pc = "celsius_in"
    /\ result' = [tag |-> "Celsius", of |-> result.val, val |-> as_celsius(result.val)]
    /\ pc' = "celsius_out"
    /\ UNCHANGED <<vdd_pin, vdd_level, locals, log>>

NextCelsius == AsCelsiusStep

SpecCelsius == InitCelsius /\ [][NextCelsius]_vars

(***************************************************************************)
(* The session and the codec side by side.                                 *)
(***************************************************************************)
InitParity == Init \/ InitPacket
NextParity == Next \/ NextPacket
SpecParity == InitParity /\ [][NextParity]_vars

(***************************************************************************)
(* Vocabulary of the properties.                                           *)
(***************************************************************************)
\* read has returned and no new call has been made
Returned == pc = "idle" /\ result.tag # "None"
Managed == vdd_pin = "Some"

\* number of set bits, counted position by position
PopCount(v) == Cardinality({i \in 0..15 : (v \div Pow2(i)) % 2 = 1})

RECURSIVE SeqSum(_)
SeqSum(q) == IF q = <<>> THEN 0 ELSE Head(q) + SeqSum(Tail(q))

\* the byte a packet's first eight samples spell, first sample most significant
DataByte(q) == LET w(k) == q[k] * Pow2(8 - k) IN
    w(1) + w(2) + w(3) + w(4) + w(5) + w(6) + w(7) + w(8)

\* all nine samples of packet p were taken
Sampled(p) == Len(log.samples[p]) = PacketLen
\* ... and they form a parity-valid packet
SampledValid(p) == Sampled(p) /\ SeqSum(log.samples[p]) % 2 = 0
\* the sample sequences that differ from some parity-valid packet in exactly
\* one place: every parity-valid 9-bit value with each of its bits flipped
OneBitOff ==
    {FrameBits(BitXor(f, Pow2(j))) :
        f \in {g \in 0..(Pow2(PacketLen) - 1) : PopCount(g) % 2 = 0},
        j \in 0..(PacketLen - 1)}
SampledOneBitOff(p) == Sampled(p) /\ log.samples[p] \in OneBitOff

NoPinFailure == ~log.sigFailed /\ ~log.setHighFailed /\ ~log.setLowFailed

\* what a call must return, worked out from nothing but what the pins did
\* during that call
ExpectedResult ==
    IF Managed /\ log.setHighFailed THEN Err("PinWriteError")
    ELSE IF log.sigFailed THEN Err("PinReadError")
    ELSE IF ~Sampled(1) THEN [tag |-> "NoReturn"]
    ELSE IF ~SampledValid(1) THEN Err("ParityCheckFailed")
    ELSE IF ~Sampled(2) THEN [tag |-> "NoReturn"]
    ELSE IF ~SampledValid(2) THEN Err("ParityCheckFailed")
    ELSE IF Managed /\ log.setLowFailed THEN Err("PinWriteError")
    ELSE Ok(Temperature(256 * DataByte(log.samples[1]) + DataByte(log.samples[2])))

(***************************************************************************)
(* Properties.                                                             *)
(***************************************************************************)

C2_FirstPacketFailure ==
    log.failPkt = 1 =>
        /\ log.firstErr \in {"ParityCheckFailed", "PinReadError"}
        /\ log.opsAfterErr[1] = 0
        /\ log.nStrobe <= 1
        /\ log.samples[2] = <<>>
        /\ Returned =>
            /\ log.nPowerDown = 1
            /\ Managed => log.nSetLow = 1
            /\ result = Err(log.firstErr)

\* a read whose first packet failed its parity check has returned
C2_Witness ==
    /\ Returned
    /\ log.failPkt = 1
    /\ log.firstErr = "ParityCheckFailed"
    /\ Managed

\* C3: a failed set-low is reported as PinWriteError when both packets were
\* acquired and validated, and is suppressed in favour of the packet's own
\* error (ParityCheckFailed or PinReadError) when a packet acquisition failed.
C3_PowerDownFailure ==
    (Returned /\ log.setLowFailed) =>
        /\ (SampledValid(1) /\ SampledValid(2) /\ ~log.sigFailed)
              => result = Err("PinWriteError")
        /\ log.failPkt \in {1, 2} =>
              /\ log.firstErr \in {"ParityCheckFailed", "PinReadError"}
              /\ result = Err(log.firstErr)

\* the second packet failed its parity check and the set-low failed as well
C3_Witness ==
    /\ Returned
    /\ log.setLowFailed
    /\ log.failPkt = 2
    /\ result = Err("ParityCheckFailed")

\* C4: when the set-high of power-up fails, read returns PinWriteError, and
\* in that call no signal-pin level is read and no delay is made.
C4_PowerUpFailure ==
    log.setHighFailed =>
        /\ ~log.didSigRead
        /\ ~log.didDelay
        /\ log.nVddDelay = 0
        /\ log.nStrobe = 0
        /\ Returned
        /\ result = Err("PinWriteError")

\* a read whose set-high failed has returned
C4_Witness ==
    /\ Returned
    /\ Managed
    /\ log.setHighFailed

\* C5: for every 9-bit value v, Packet::new succeeds iff v has an even number
\* of set bits; the packet's value is then v >> 1, an 8-bit value; otherwise
\* the result is ParityCheckFailed and carries no value.
C5_PacketValidation ==
    pc = "packet_out" =>
        /\ IsOk(result) <=> PopCount(packet_bits) % 2 = 0
        /\ IsOk(result) =>
            /\ Packet_value(result.val) = packet_bits \div 2
            /\ Packet_value(result.val) \in 0..255
        /\ ~IsOk(result) =>
            /\ result.tag = "Err"
            /\ result.err = "ParityCheckFailed"
            /\ DOMAIN result = {"tag", "err"}

\* 0b111111110 was validated: value 255
C5_Witness ==
    /\ pc = "packet_out"
    /\ packet_bits = 510
    /\ IsOk(result)
    /\ Packet_value(result.val) = 255

\* C6: the Temperature built from validated packets with values h and l has
\* raw = (h << 8) | l, within 0..65535 and with both bytes recoverable from
\* it; h = 0x19, l = 0x33 gives 6451.
C6_TemperatureCombine ==
    pc = "temp_out" =>
        LET h == Packet_value(first_packet)
            l == Packet_value(second_packet)
            raw == result.val.raw
        IN  /\ h \in 0..255 /\ l \in 0..255
            /\ raw = 256 * h + l
            /\ raw \in 0..65535
            /\ raw \div 256 = h
            /\ raw % 256 = l
            /\ (h = 25 /\ l = 51) => raw = 6451

\* the packets with values 0x19 and 0x33 were combined into 6451
C6_Witness ==
    /\ pc = "temp_out"
    /\ Packet_value(first_packet) = 25
    /\ Packet_value(second_packet) = 51
    /\ result.val.raw = 6451

C8_SingleBitDetectedInEveryRead ==
    /\ pc = "flipped_out" => result = Err("ParityCheckFailed")
    /\ (Returned /\ (SampledOneBitOff(1) \/ SampledOneBitOff(2))) =>
        /\ result = Err("ParityCheckFailed")
        /\ Managed => log.nSetLow >= 1

\* C8, amended: flipping one bit of a parity-valid packet makes validation
\* fail with ParityCheckFailed, and every read in which the nine samples of a
\* packet are one bit away from a valid packet and no signal-pin read fails
\* returns ParityCheckFailed; with or without such a failure, on a managed
\* session it has set the supply pin low.
C8_SingleBitDetected ==
    /\ pc = "flipped_out" =>
        /\ IsOk(Packet_new(first_packet.raw_bits))
        /\ PopCount(BitXor(packet_bits, first_packet.raw_bits)) = 1
        /\ result = Err("ParityCheckFailed")
    /\ (Returned /\ (SampledOneBitOff(1) \/ SampledOneBitOff(2))) =>
        /\ ~log.sigFailed => result = Err("ParityCheckFailed")
        /\ Managed => log.nSetLow >= 1

\* the second packet arrived with one bit wrong on a managed session
C8_Witness ==
    /\ Returned
    /\ Managed
    /\ SampledValid(1)
    /\ SampledOneBitOff(2)
    /\ ~log.sigFailed
    /\ result = Err("ParityCheckFailed")

\* C9: on a session without a supply pin, power-up and power-down write no
\* pin, never fail and never make the 50 microsecond delay: read never
\* returns PinWriteError.
C9_Unmanaged ==
    vdd_pin = "None" =>
        /\ log.nSetHigh = 0
        /\ log.nSetLow = 0
        /\ ~log.setHighFailed
        /\ ~log.setLowFailed
        /\ vdd_level = "none"
        /\ log.nVddDelay = 0
        /\ log.lastDelay # VDD_POWER_UP_DELAY
        /\ pc # "vdd_delay"
        /\ result # Err("PinWriteError")
        /\ log.firstErr # "PinWriteError"

\* a read on a session without a supply pin ran through both power steps
C9_Witness ==
    /\ vdd_pin = "None"
    /\ Returned
    /\ IsOk(result)
    /\ log.nPowerDown = 1

\* C10: read keeps nothing from one call to the next: between calls every
\* local of the decoder is gone, and whatever the earlier calls returned,
\* the result of a call is the one the pin levels and pin failures of that
\* call alone determine, the same as on a fresh session.
C10_NoCarriedState ==
    /\ pc = "idle" =>
        /\ bit_i = 0 /\ strobe_acc = 0 /\ strobe_len = 0 /\ packet_bits = 0
        /\ first_packet = NoPacket /\ second_packet = NoPacket /\ err = NoErr
    /\ (Returned /\ log.history \in {"fresh", "failed_only"}) =>
        result = ExpectedResult

\* a read that followed only failed reads has succeeded
C10_Witness ==
    /\ Returned
    /\ log.history = "failed_only"
    /\ IsOk(result)

\* C11: a read whose signal-pin reads have all answered the same level, with
\* no pin access failed, has not returned and has not invoked the power-down
\* step; on a session with a supply pin the pin is still high.  A line stuck
\* high keeps the read in its first wait for low, a line stuck low keeps it
\* in the strobe measurement.
C11_StuckLineNeverReturns ==
    (pc # "idle" \/ Returned) /\ NoPinFailure /\ ~(log.sawHigh /\ log.sawLow) =>
        /\ ~Returned
        /\ pc \in {"power_up", "vdd_delay", "wait_start", "strobe", "strobe_delay"}
        /\ log.nPowerDown = 0
        /\ log.nSetLow = 0
        /\ log.nSamples = 0
        /\ (log.sawHigh => pc = "wait_start" /\ pkt = 1)
        /\ (log.sawLow => pc \in {"strobe", "strobe_delay"} /\ pkt = 1)
        /\ (Managed /\ log.nSetHigh > 0 => vdd_level = "high")

\* on a session with a supply pin the line has been low for every one of the
\* reads of a strobe measurement that is still running
C11_Witness ==
    /\ Managed
    /\ NoPinFailure
    /\ pc = "strobe"
    /\ log.sawLow /\ ~log.sawHigh
    /\ strobe_acc >= 4 * STROBE_SAMPLING_RATE
    /\ vdd_level = "high"

\* an f32 x as <<w, f>> with x = w + f / 2^19 and 0 <= f < 2^19
Fix(x) ==
    LET w == x.mant \div Pow2(x.scale)
        f == (x.mant % Pow2(x.scale)) * Pow2(19 - x.scale)
    IN IF ~x.neg THEN <<w, f>>
       ELSE IF f = 0 THEN <<-w, 0>>
       ELSE <<(-w) - 1, Pow2(19) - f>>
F32Less(a, b) ==
    Fix(a)[1] < Fix(b)[1] \/ (Fix(a)[1] = Fix(b)[1] /\ Fix(a)[2] < Fix(b)[2])
\* |x - (200 raw / 2047 - 50)| in units of 1 / (2047 * 2^19), or -1 when
\* the two are a whole degree or more apart
CelsiusError(raw, x) ==
    LET N == 200 * raw - 50 * 2047
        dw == Fix(x)[1] - (N \div 2047)
        e == dw * 2047 * Pow2(19) + Fix(x)[2] * 2047 - (N % 2047) * Pow2(19)
    IN IF x.scale > 19 \/ dw > 1 \/ dw < -1 THEN -1
       ELSE IF e < 0 THEN -e ELSE e
CelsiusDone == pc = "celsius_out"

\* C12 as claimed: for every raw value as_celsius returns exactly
\* 200 raw / 2047 - 50.
C12_ExactCelsius ==
    CelsiusDone => CelsiusError(result.of.raw, result.val) = 0

\* C12: for every raw value 0..65535 as_celsius returns 200 raw / 2047 - 50
\* rounded by the f32 operations, never more than 2^-12 away from it; the
\* result is strictly greater than that of the raw value below, and it is
\* exactly -50 for raw 0 and exactly 150 for raw 2047.
C12_CelsiusRounded ==
    CelsiusDone =>
        LET raw == result.of.raw IN
        /\ CelsiusError(raw, result.val) >= 0
        /\ CelsiusError(raw, result.val) <= 2047 * Pow2(19 - 12)
        /\ raw > 0 => F32Less(as_celsius(Temperature(raw - 1)), result.val)
        /\ raw = 0 => result.val = F32(TRUE, 50, 0)
        /\ raw = 2047 => result.val = F32(FALSE, 150, 0)

\* raw 1 has been converted to -13081587 / 2^18, the f32 next to -49.9023
C12_Witness ==
    /\ CelsiusDone
    /\ result.of.raw = 1
    /\ result.val = [neg |-> TRUE, mant |-> 13081587, scale |-> 18]

\* a packet acquisition is past its strobe measurement
InBits == pc \in {"bit_wait_low", "bit_delay", "bit_sample", "bit_wait_high", "packet_new"}

\* C13 as claimed: the delay made before a bit sample is the duration the
\* strobe measurement of the same packet found, 8 us for each low
\* observation, whatever that duration is.
C13_DelayIsStrobeDuration ==
    pc = "bit_sample" => log.lastDelay = STROBE_SAMPLING_RATE * log.strobeLows

\* C14: a strobe measurement has made one 8 us delay for each low
\* observation that was followed by another test of the line, and once it
\* has returned it has seen exactly one high observation, the last one, and
\* has returned 8 us times the number of low observations before it: 0 and
\* no delay when the first observation is high.
C14_StrobeEstimator ==
    /\ pc = "strobe" =>
        /\ strobe_acc = STROBE_SAMPLING_RATE * log.strobeLows
        /\ log.strobeDelays = log.strobeLows
        /\ log.strobeHighs = 0 /\ log.strobeRet = -1
    /\ pc = "strobe_delay" =>
        /\ strobe_acc = STROBE_SAMPLING_RATE * log.strobeLows
        /\ log.strobeDelays = log.strobeLows - 1
        /\ log.strobeHighs = 0 /\ log.strobeRet = -1
    /\ InBits =>
        /\ log.strobeRet = STROBE_SAMPLING_RATE * log.strobeLows
        /\ log.strobeDelays = log.strobeLows
        /\ log.strobeHighs = 1
    /\ (log.strobeRet # -1 /\ log.strobeLows = 0) =>
        log.strobeRet = 0 /\ log.strobeDelays = 0

\* the strobe measurement of the second packet has returned 64 us after
\* eight low observations
C14_Witness ==
    /\ pc = "bit_wait_low"
    /\ pkt = 2
    /\ log.strobeLows = 8
    /\ log.strobeRet = 64
    /\ log.lastDelay = STROBE_SAMPLING_RATE

\* the set of bit positions 8..0 that the samples q put a 1 in, the k-th
\* sample standing for bit 9 - k
OnesOf(q) == {PacketLen - k : k \in {j \in 1..Len(q) : q[j] = 1}}
\* bit j of v
BitAt(v, j) == (v \div Pow2(j)) % 2

\* C15: when a packet acquisition hands its value to the codec it has taken
\* exactly nine samples for that packet, bit 9 - k of the value is the k-th
\* sample (the first sample is bit 8, the ninth is bit 0) and the value is
\* below 512.
C15_NineSamplesMsbFirst ==
    pc = "packet_new" =>
        /\ Len(log.samples[pkt]) = PacketLen
        /\ log.nSamples = PacketLen * pkt
        /\ \A j \in 0..15 :
              BitAt(packet_bits, j) = IF j \in OnesOf(log.samples[pkt]) THEN 1 ELSE 0
        /\ packet_bits < 512

\* the second packet is handed over with samples 0 1 0 0 1 1 0 1 1
C15_Witness ==
    /\ pc = "packet_new"
    /\ pkt = 2
    /\ log.samples[2] = <<0, 1, 0, 0, 1, 1, 0, 1, 1>>
    /\ packet_bits = 155

\* C16: the steps of every packet acquisition come in the order: one strobe
\* measurement, then for each bit the wait for low, the strobe delay, one
\* sample, the wait for high.  No step is taken out of turn (the wait for
\* the next bit's low starts only after the wait for high has seen high),
\* the strobe measurement of a packet has returned before its first sample
\* is taken and is the only one of that packet, and each bit is sampled
\* once.
C16_PacketStepOrder ==
    /\ log.stage # "bad"
    /\ pc \in {"strobe", "strobe_delay"} =>
        log.stage = "strobing" /\ log.nStrobe = pkt /\ Len(log.samples[pkt]) = 0
    /\ InBits =>
        /\ log.nStrobe = pkt
        /\ log.strobeRet # -1
        /\ log.bitsDone = bit_i
    /\ pc = "bit_wait_low" => log.stage = "bit_next" /\ Len(log.samples[pkt]) = log.bitsDone
    /\ pc = "bit_delay" => log.stage = "bit_low" /\ Len(log.samples[pkt]) = log.bitsDone
    /\ pc = "bit_sample" =>
        log.stage = "bit_delayed" /\ Len(log.samples[pkt]) = log.bitsDone
    /\ pc = "bit_wait_high" =>
        log.stage = "bit_sampled" /\ Len(log.samples[pkt]) = log.bitsDone + 1
    /\ pc = "packet_new" =>
        log.stage = "bit_next" /\ log.bitsDone = PacketLen /\ log.nSamples = PacketLen * pkt

\* the second packet is in the wait for high of its fifth bit
C16_Witness ==
    /\ pc = "bit_wait_high"
    /\ pkt = 2
    /\ log.stage = "bit_sampled"
    /\ log.bitsDone = 4
    /\ log.nStrobe = 2
    /\ log.nSamples = PacketLen + 5

\* C17: once a signal-pin read has failed, in an edge wait, in the strobe
\* measurement or at a bit sample of either packet, the read makes no further
\* signal-pin read and no further delay; it goes through the best-effort
\* power-down once, which on a session with a supply pin is one set-low whose
\* outcome is ignored, and returns PinReadError.
C17_SignalReadFailure ==
    log.sigFailed =>
        /\ log.firstErr = "PinReadError"
        /\ log.failPkt \in {1, 2}
        /\ log.opsAfterErr[1] = 0
        /\ log.opsAfterErr[2] = 0
        /\ pc \in {"err_power_down", "idle"}
        /\ pc = "err_power_down" =>
            err = "PinReadError" /\ log.nPowerDown = 0 /\ log.nSetLow = 0
        /\ pc = "idle" =>
            /\ result = Err("PinReadError")
            /\ log.nPowerDown = 1
            /\ log.opsAfterErr[3] = 1
            /\ log.nSetLow = IF Managed THEN 1 ELSE 0

\* a read of the strobe measurement of the second packet failed, the set-low
\* of the power-down failed as well, and the read returned PinReadError
C17_Witness ==
    /\ Returned
    /\ Managed
    /\ log.sigFailed
    /\ log.failPkt = 2
    /\ log.stage = "strobing"
    /\ log.setLowFailed
    /\ result = Err("PinReadError")

\* a read has been called and has passed the power-up step, or has returned
PastPowerUp == Returned \/ pc \notin {"idle", "power_up"}

\* C18: in a read on a session with a supply pin the first operation is the
\* set-high; the second, if there is one, is the 50 us delay, the only one of
\* the read, and the first signal-pin read comes after it; no signal pin is
\* read after the set-low; the read makes exactly one set-high and at most
\* one set-low.
C18_PowerSequence ==
    Managed =>
        /\ Len(log.firstOps) >= 1 => log.firstOps[1] = "set_high"
        /\ Len(log.firstOps) >= 2 => log.firstOps[2] = "delay_50" /\ ~log.setHighFailed
        /\ Len(log.firstOps) >= 3 => log.firstOps[3] = "sig_read"
        /\ log.didSigRead => Len(log.firstOps) = 3 /\ log.nVddDelay = 1
        /\ log.nVddDelay <= 1
        /\ log.readsAfterSetLow = 0
        /\ log.nSetHigh <= 1
        /\ log.nSetLow <= 1
        /\ PastPowerUp => log.nSetHigh = 1

\* a read on a session with a supply pin has returned a temperature after
\* set-high, the delay, its signal-pin reads and one set-low
C18_Witness ==
    /\ Managed
    /\ Returned
    /\ IsOk(result)
    /\ log.firstOps = <<"set_high", "delay_50", "sig_read">>
    /\ log.nSetHigh = 1
    /\ log.nSetLow = 1
    /\ log.nVddDelay = 1

InRead == pc # "idle"

\* C19: when the line does not stay at one level for ever, every read that
\* is called returns, with a temperature or an error, so that every edge
\* wait and every strobe measurement it started has ended (a read that has
\* returned is in none of them); and a read makes at most two strobe
\* measurements and takes at most eighteen bit samples.
C19_ReadTerminates ==
    /\ [](log.nStrobe <= 2 /\ log.nSamples <= 2 * PacketLen)
    /\ InRead ~> Returned

\* a read that has seen both levels has returned a temperature after two
\* strobe measurements and eighteen samples
C19_Witness ==
    /\ Returned
    /\ IsOk(result)
    /\ ~Managed
    /\ log.sawHigh /\ log.sawLow
    /\ log.nStrobe = 2
    /\ log.nSamples = 2 * PacketLen
    /\ log.strobeLows = 8

\* a step in which set_high is called on the supply pin, or in which the pin
\* goes to high
SetHighCommanded ==
    \/ log'.nSetHigh = log.nSetHigh + 1
    \/ (vdd_level' = "high" /\ vdd_level # "high")

\* C20: on a session with a supply pin, when a read has returned and no
\* supply-pin write failed during it, the read has commanded the pin high
\* once and then low once and the pin is low; the pin is commanded high only
\* by a step of a read in progress, its power-up step, and between reads it
\* is at high only after a read in which a supply-pin write failed.
C20_SupplyLowBetweenReads ==
    /\ [](Managed /\ Returned /\ ~log.setHighFailed /\ ~log.setLowFailed =>
            /\ vdd_level = "low"
            /\ log.nSetHigh = 1
            /\ log.nSetLow = 1)
    /\ [](Managed /\ pc = "idle" /\ vdd_level = "high" =>
            log.setHighFailed \/ log.setLowFailed)
    /\ [][SetHighCommanded => Managed /\ pc = "power_up"]_vars

\* a read that failed at a signal-pin read has returned with the supply pin
\* commanded high and then low, no supply-pin write having failed
C20_Witness ==
    /\ Managed
    /\ Returned
    /\ result = Err("PinReadError")
    /\ ~log.setHighFailed /\ ~log.setLowFailed
    /\ log.history = "other"
    /\ vdd_level = "low"

====
